---- MODULE Spec2Model ----
(***************************************************************************)
(* Adaptive quadtree harvest of OSM notes (src/main.py).                   *)
(*                                                                         *)
(* main() tiles the bounding box of the country with square cells of      *)
(* INIT_CELL_SIZE degrees and starts one process_cell task per cell in an  *)
(* anyio task group.  A task prunes its cell when it does not intersect    *)
(* the country, otherwise awaits one bounding-box request; a response of   *)
(* exactly API_LIMIT items makes it start four tasks for the quadrants, a  *)
(* shorter one is filtered, normalised by process_feature and appended to  *)
(* the list `features`.  When the task group has drained without an       *)
(* exception, _save_result sorts the list by id and writes it.             *)
(*                                                                         *)
(* Coordinates are integers: one degree is Scale lattice units, so that    *)
(* every halving down to depth MaxDepth + 1 is exact.  The country is a    *)
(* union of closed one-degree squares; a note is a point.                  *)
(***************************************************************************)
EXTENDS Integers, Sequences, FiniteSets, TLC

\* ------------------------------------------------------------ bounds
\* Deepest subdivision the model follows: an overflow of a cell at this
\* depth is not carried out (the code itself has no such limit).
MaxDepth == 1

\* Number of notes in the remote dataset.
MaxNotes == 3

\* ------------------------------------------------- program constants
\* main.py:18 sets 10_000; the model scales the page cap down so that a
\* dataset of MaxNotes notes can reach it.
API_LIMIT == 3

\* main.py:20, in degrees.
INIT_CELL_SIZE == 4

\* ---------------------------------------------------------- helpers
RECURSIVE Pow2(_)
Pow2(n) == IF n = 0 THEN 1 ELSE 2 * Pow2(n - 1)

\* Lattice units per degree.
Scale == Pow2(MaxDepth)

\* A division that rounds down.
ceil_floor(a, b) == a \div b

\* math.ceil(a / b) for a >= 0, b > 0.
ceil(a, b) == (a + b - 1) \div b

SetMin(S) == CHOOSE x \in S : \A y \in S : x <= y
SetMax(S) == CHOOSE x \in S : \A y \in S : y <= x

Range(s) == {s[i] : i \in DOMAIN s}

\* ---------------------------------------------------------- geometry
\* A country is a set of tiles <<x, y>>: the closed squares
\* [x, x + Scale] x [y, y + Scale], with x and y multiples of Scale.
\* shape(country['geometry']) of _load_country_shape is one of these.
Tile(dx, dy) == <<dx * Scale, dy * Scale>>

\* A 5 x 3 degree rectangle: two bootstrap cells, the second one partial.
CountryA == {Tile(dx, dy) : dx \in 0..4, dy \in 0..2}

\* Three separate parts: a 2 x 2 degree square and two single tiles; of the
\* four bootstrap cells one does not meet the country.
CountryB == {Tile(dx, dy) : dx \in 0..1, dy \in 0..1} \cup {Tile(1, 5), Tile(5, 5)}

\* Two single tiles at opposite corners of the box (0,0)-(8,8): four full
\* bootstrap cells, two of which do not meet the country.
CountryC == {Tile(0, 0), Tile(7, 7)}

\* A 2 x 2 degree square whose bounding box does not start at the origin:
\* one bootstrap cell, reaching beyond the box on both axes.
CountryD == {Tile(dx, dy) : dx \in 3..4, dy \in 0..1}

Countries == {CountryA, CountryB, CountryC, CountryD}

\* country.bounds: <<min_lon, min_lat, max_lon, max_lat>>.
bounds(country) ==
    << SetMin({t[1] : t \in country}), SetMin({t[2] : t \in country}),
       SetMax({t[1] : t \in country}) + Scale, SetMax({t[2] : t \in country}) + Scale >>

\* A test against the bounding box of the country, not the country.
intersects_bounds(country, lon, lat, size) ==
    /\ bounds(country)[1] <= lon + size /\ lon <= bounds(country)[3]
    /\ bounds(country)[2] <= lat + size /\ lat <= bounds(country)[4]

\* country.intersects(box(lon, lat, lon + size, lat + size)): the closed
\* rectangle and the closed country share a point (touching counts).
intersects(country, lon, lat, size) ==
    \E t \in country :
        /\ t[1] <= lon + size /\ lon <= t[1] + Scale
        /\ t[2] <= lat + size /\ lat <= t[2] + Scale

\* The origins, along one axis, of the tiles whose closed side holds v.
TileOrigins(v) ==
    IF v % Scale = 0 THEN {v - Scale, v} ELSE {v - (v % Scale)}

\* country.contains(shape(feature['geometry'])) for a point: the point lies
\* in the interior of the country, that is, every tile around it is part
\* of the country.  A point on the border is not contained.
contains(country, p) ==
    \A tx \in TileOrigins(p[1]), ty \in TileOrigins(p[2]) : <<tx, ty>> \in country

\* The closed bounding box of a request holds the point.
InBBox(p, lon, lat, size) ==
    /\ lon <= p[1] /\ p[1] <= lon + size
    /\ lat <= p[2] /\ p[2] <= lat + size

\* ------------------------------------------------------ remote data
\* Where a note can lie, in degrees.  In CountryA: inside the first quadrant
\* of the first bootstrap cell, on the edge shared by its first and third
\* quadrant, on the edge shared by the two bootstrap cells, on the border of
\* the country.  In CountryB only the first lies inside the country.
Points ==
    << <<1 * Scale, 1 * Scale>>, <<1 * Scale, 2 * Scale>>,
       <<4 * Scale, 1 * Scale>>, <<5 * Scale, 3 * Scale>> >>

\* The tokens of a comment's text that match #\S+.
HashTags == {"#a", "#b"}

\* A comment's text is the sequence of its whitespace-separated tokens and
\* its date the sequence of its characters.  The comment lists a note can
\* have: none, two comments (the first without a user), one comment whose
\* date does not begin with a year.
CommentLists ==
    << << >>,
       << [text |-> <<"#b", "#a", "#b">>, date |-> <<"2", "0", "2", "1", "-">>],
          [user |-> "bob", text |-> <<"later">>, date |-> <<"2", "0", "2", "2", "-">>] >>,
       << [user |-> "eve", text |-> <<"#a">>, date |-> <<"n", "/", "a">>] >> >>

\* One item of r.json()['features'] as the API returns it; properties and
\* geometry are flattened into one record.
RawFeature(i, p, cs) ==
    [id |-> i, pos |-> p, comments |-> cs,
     url |-> "u", comment_url |-> "c", close_url |-> "x"]

\* The open notes the remote API may hold, as <<point, comment list>>; the
\* id of a note is its place in this sequence.  Every point has a note with
\* two comments; a point inside both countries and a point inside neither
\* have a note without comments and a note with a malformed date as well.
Placed ==
    << <<4, 2>>, <<3, 2>>, <<1, 3>>, <<1, 1>>,
       <<2, 2>>, <<4, 1>>, <<1, 2>>, <<4, 3>> >>

Catalogue ==
    { RawFeature(i, Points[Placed[i][1]], CommentLists[Placed[i][2]]) :
        i \in DOMAIN Placed }

NoteIds == {f.id : f \in Catalogue}

\* The datasets: at most MaxNotes notes of the catalogue.
Datasets == {D \in SUBSET Catalogue : Cardinality(D) <= MaxNotes}

\* The orders in which a Python set of strings can iterate; it is fixed for
\* one process by the string hash seed and differs between processes.
TagOrders == { <<"#a", "#b">>, <<"#b", "#a">> }

\* ------------------------------------------------- process_feature
DigitVal ==
    [c \in {"0", "1", "2", "3", "4", "5", "6", "7", "8", "9"} |->
        CASE c = "0" -> 0 [] c = "1" -> 1 [] c = "2" -> 2 [] c = "3" -> 3
          [] c = "4" -> 4 [] c = "5" -> 5 [] c = "6" -> 6 [] c = "7" -> 7
          [] c = "8" -> 8 [] c = "9" -> 9]

\* s[:n]
Prefix(s, n) == SubSeq(s, 1, IF Len(s) < n THEN Len(s) ELSE n)

\* int(s) succeeds: s is a non-empty run of decimal digits.
IsInt(s) == Len(s) > 0 /\ \A k \in 1..Len(s) : s[k] \in DOMAIN DigitVal

RECURSIVE int(_)
int(s) == IF s = << >> THEN 0
          ELSE 10 * int(SubSeq(s, 1, Len(s) - 1)) + DigitVal[s[Len(s)]]

\* re.findall(r'#\S+', text)
findall(text) == SelectSeq(text, LAMBDA tok : tok \in HashTags)

\* ' '.join(set(tags)): the distinct tags in the set's iteration order.
join_set(tags, order) == SelectSeq(order, LAMBDA tok : tok \in Range(tags))

\* process_feature raises: a key is missing (KeyError), the comment list is
\* empty (IndexError) or the year is no integer (ValueError).
process_feature_raises(feature) ==
    \/ "comments" \notin DOMAIN feature
    \/ feature.comments = << >>
    \/ ~IsInt(Prefix(feature.comments[1].date, 4))
    \/ {"url", "comment_url", "close_url"} \ DOMAIN feature # {}

\* process_feature: the derived fields come from the first comment, the
\* transport-only fields are deleted.
process_feature(feature, order) ==
    LET first_comment == feature.comments[1]
        kept == DOMAIN feature \ {"url", "comment_url", "close_url", "comments"}
    IN  [k \in kept \cup {"user", "text", "tags", "year"} |->
            CASE k = "user" -> IF "user" \in DOMAIN first_comment
                               THEN first_comment.user ELSE "anonymous"
              [] k = "text" -> first_comment.text
              [] k = "tags" -> join_set(findall(first_comment.text), order)
              [] k = "year" -> int(Prefix(first_comment.date, 4))
              [] OTHER -> feature[k]]

\* ------------------------------------------------------- remote API
\* The notes of the dataset inside the closed bounding box, by ascending id
\* up to id n.
RECURSIVE InBox(_, _, _, _, _)
InBox(data, n, lon, lat, size) ==
    IF n = 0 THEN << >>
    ELSE LET rest == InBox(data, n - 1, lon, lat, size)
             here == {f \in data : f.id = n /\ InBBox(f.pos, lon, lat, size)}
         IN  IF here # {} THEN Append(rest, CHOOSE f \in here : TRUE) ELSE rest

\* A request whose limit is one below the cap the response is tested against.
Fetch_short(data, lon, lat, size) ==
    Prefix(InBox(data, Len(Placed), lon, lat, size), API_LIMIT - 1)

\* r.json()['features'] of GET notes.json?bbox=..&limit=API_LIMIT&closed=0:
\* at most API_LIMIT of the notes inside the box.
Fetch(data, lon, lat, size) ==
    Prefix(InBox(data, Len(Placed), lon, lat, size), API_LIMIT)

\* ----------------------------------------------------- _save_result
\* x placed after the last record of the sorted sequence init whose id is
\* not greater.
insert(init, x) ==
    LET k == Cardinality({j \in DOMAIN init : init[j].id <= x.id})
    IN  SubSeq(init, 1, k) \o <<x>> \o SubSeq(init, k + 1, Len(init))

\* sorted(features, key=id): a stable sort, by insertion of the last record
\* into the sorted sequence of those before it.
RECURSIVE sorted(_)
sorted(s) ==
    IF s = << >> THEN << >>
    ELSE CHOOSE r \in { insert(init, s[Len(s)]) :
                            init \in {sorted(SubSeq(s, 1, Len(s) - 1))} } : TRUE

\* ------------------------------------------------------------ state
VARIABLES
    country,    \* the polygon loaded by _load_country_shape
    notes,      \* the remote dataset: a set of raw features
    tagorder,   \* this process's iteration order of a set of tags
    tasks,      \* the tasks of the task group tg, in the order they were started
    features,   \* the list `features` of main
    cancelled,  \* tg's cancel scope has been cancelled
    pc,         \* where main is: "group", "saved", "raised"
    output      \* the feature list _save_result wrote

vars == <<country, notes, tagorder, tasks, features, cancelled, pc, output>>

\* Side of a cell of the bootstrap grid, in lattice units.
InitSize == INIT_CELL_SIZE * Scale

\* A task of tg running process_cell(lon, lat, size).  st is its position:
\* "pending" (started with start_soon, not yet run), "fetching" (suspended in
\* await HTTP.get), "pruned", "split", "leaf" (returned), "failed" (raised),
\* "cancelled".  got is len(cell_result), -1 before the response.
Task(lon, lat, size, depth, parent) ==
    [lon |-> lon, lat |-> lat, size |-> size, depth |-> depth, parent |-> parent,
     st |-> "pending", reqs |-> 0, got |-> -1, kept |-> 0]

\* main, lines 98-104: one task per cell of the grid over country.bounds,
\* longitudes in the outer loop.
Bootstrap(c) ==
    LET b == bounds(c)
        lon_steps == ceil(b[3] - b[1], InitSize)
        lat_steps == ceil(b[4] - b[2], InitSize)
    IN  [k \in 1..(lon_steps * lat_steps) |->
            Task(b[1] + ((k - 1) \div lat_steps) * InitSize,
                 b[2] + ((k - 1) % lat_steps) * InitSize,
                 InitSize, 0, 0)]

Init ==
    /\ country \in Countries
    /\ notes \in Datasets
    /\ tagorder \in TagOrders
    /\ tasks = Bootstrap(country)
    /\ features = << >>
    /\ cancelled = FALSE
    /\ pc = "group"
    /\ output = << >>

\* ----------------------------------------------------- process_cell
Finished(t) == t.st \in {"pruned", "split", "leaf", "failed", "cancelled"}

\* A cap test that a full page never meets.
capped_above(cell_result) == Len(cell_result) > API_LIMIT

\* Line 80: the page cap was reached.
capped(cell_result) == Len(cell_result) = API_LIMIT

\* Quadrants whose first cell repeats the second one's origin.
children_gap(t, i) ==
    LET new_size == t.size \div 2
    IN  << Task(t.lon + new_size, t.lat, new_size, t.depth + 1, i),
           Task(t.lon + new_size, t.lat, new_size, t.depth + 1, i),
           Task(t.lon, t.lat + new_size, new_size, t.depth + 1, i),
           Task(t.lon + new_size, t.lat + new_size, new_size, t.depth + 1, i) >>

\* Quadrants whose third cell is a copy of the second.
children_pasted(t, i) ==
    LET new_size == t.size \div 2
    IN  << Task(t.lon, t.lat, new_size, t.depth + 1, i),
           Task(t.lon + new_size, t.lat, new_size, t.depth + 1, i),
           Task(t.lon + new_size, t.lat, new_size, t.depth + 1, i),
           Task(t.lon + new_size, t.lat + new_size, new_size, t.depth + 1, i) >>

\* Quadrants of the parent's size: the size is not halved.
children_whole(t, i) ==
    << Task(t.lon, t.lat, t.size, t.depth + 1, i),
       Task(t.lon + t.size, t.lat, t.size, t.depth + 1, i),
       Task(t.lon, t.lat + t.size, t.size, t.depth + 1, i),
       Task(t.lon + t.size, t.lat + t.size, t.size, t.depth + 1, i) >>

\* Quadrants placed at the offsets of the parent's size, not of half of it.
children_far(t, i) ==
    LET new_size == t.size \div 2
    IN  << Task(t.lon, t.lat, new_size, t.depth + 1, i),
           Task(t.lon + t.size, t.lat, new_size, t.depth + 1, i),
           Task(t.lon, t.lat + t.size, new_size, t.depth + 1, i),
           Task(t.lon + t.size, t.lat + t.size, new_size, t.depth + 1, i) >>

\* Lines 82-86: the tasks started for the four quadrants of task i's cell.
children(t, i) ==
    LET new_size == t.size \div 2
    IN  << Task(t.lon, t.lat, new_size, t.depth + 1, i),
           Task(t.lon + new_size, t.lat, new_size, t.depth + 1, i),
           Task(t.lon, t.lat + new_size, new_size, t.depth + 1, i),
           Task(t.lon + new_size, t.lat + new_size, new_size, t.depth + 1, i) >>

\* A filter that leaves out the test of the comment list.
keep_located(feature) == contains(country, feature.pos)

\* A filter that leaves out the containment test.
keep_commented(feature) == feature.comments # << >>

\* Line 92: the filter of the terminal branch.
keep(feature) == feature.comments # << >> /\ contains(country, feature.pos)

\* A batch cut to the first record the filter keeps.
RECURSIVE cell_batch_one(_, _)
cell_batch_one(cell_result, order) ==
    IF cell_result = << >> THEN << >>
    ELSE IF keep(Head(cell_result)) THEN <<process_feature(Head(cell_result), order)>>
    ELSE cell_batch_one(Tail(cell_result), order)

\* Lines 89-93: the records of the features the filter keeps, with the
\* process's set iteration order.
RECURSIVE cell_batch(_, _)
cell_batch(cell_result, order) ==
    IF cell_result = << >> THEN << >>
    ELSE LET f == Head(cell_result)
         IN  IF keep(f) THEN <<process_feature(f, order)>> \o cell_batch(Tail(cell_result), order)
             ELSE cell_batch(Tail(cell_result), order)

\* Building the tuple of line 89 raises in process_feature.
batch_raises(cell_result) ==
    \E k \in DOMAIN cell_result : keep(cell_result[k]) /\ process_feature_raises(cell_result[k])

\* Records appended one by one: those built before the raise are in the store.
RECURSIVE partial_batch(_, _)
partial_batch(cell_result, order) ==
    IF cell_result = << >> THEN << >>
    ELSE LET f == Head(cell_result)
         IN  IF ~keep(f) THEN partial_batch(Tail(cell_result), order)
             ELSE IF process_feature_raises(f) THEN << >>
             ELSE <<process_feature(f, order)>> \o partial_batch(Tail(cell_result), order)

\* Lines 89-94: what a task whose process_feature raises appends.  The
\* tuple of line 89 is built before features.extend is called, so the
\* exception leaves line 94 unreached and the store as it is.
raised_batch(cell_result, order) == << >>

\* Lines 63-68: a task runs up to its first await.  It returns at once when
\* its cell does not meet the country, else it issues its request.
first_step(t) ==
    IF intersects(country, t.lon, t.lat, t.size)
    THEN [t EXCEPT !.st = "fetching", !.reqs = @ + 1]
    ELSE [t EXCEPT !.st = "pruned"]

\* The event loop runs the tasks started with start_soon one after the
\* other, each up to its first await, before it handles a response.
Start ==
    /\ pc = "group" /\ ~cancelled
    /\ \E i \in DOMAIN tasks : tasks[i].st = "pending"
    /\ tasks' = [i \in DOMAIN tasks |->
                    IF tasks[i].st = "pending" THEN first_step(tasks[i]) ELSE tasks[i]]
    /\ UNCHANGED <<country, notes, tagorder, features, cancelled, pc, output>>

\* Lines 68-95: the response arrives with a success status and the task runs
\* to its end without suspending again.
Respond(i) ==
    /\ pc = "group" /\ ~cancelled
    /\ tasks[i].st = "fetching"
    /\ \E cell_result \in {Fetch(notes, tasks[i].lon, tasks[i].lat, tasks[i].size)} :
        LET t == tasks[i]
        IN  IF capped(cell_result)
            THEN /\ t.depth < MaxDepth
                 /\ tasks' = [tasks EXCEPT ![i] = [@ EXCEPT !.st = "split",
                                                             !.got = Len(cell_result)]]
                             \o children(t, i)
                 /\ UNCHANGED <<features, cancelled>>
            ELSE IF batch_raises(cell_result)
            THEN /\ tasks' = [tasks EXCEPT ![i] = [@ EXCEPT !.st = "failed",
                                                             !.got = Len(cell_result)]]
                 /\ cancelled' = TRUE
                 /\ features' = features \o raised_batch(cell_result, tagorder)
            ELSE \E batch \in {cell_batch(cell_result, tagorder)} :
                 /\ features' = features \o batch
                 /\ tasks' = [tasks EXCEPT ![i] =
                                 [@ EXCEPT !.st = "leaf", !.got = Len(cell_result),
                                           !.kept = Len(batch)]]
                 /\ UNCHANGED cancelled
    /\ UNCHANGED <<country, notes, tagorder, pc, output>>

\* A failure that leaves the cancel scope of the group as it is.
RespondError_quiet(i) ==
    /\ pc = "group" /\ ~cancelled
    /\ tasks[i].st = "fetching"
    /\ tasks' = [tasks EXCEPT ![i] = [@ EXCEPT !.st = "failed"]]
    /\ UNCHANGED <<country, notes, tagorder, features, cancelled, pc, output>>

\* A failed request that is issued again by the same task.
RespondError_retry(i) ==
    /\ pc = "group" /\ ~cancelled
    /\ tasks[i].st = "fetching"
    /\ tasks' = [tasks EXCEPT ![i] = [@ EXCEPT !.reqs = @ + 1]]
    /\ UNCHANGED <<country, notes, tagorder, features, cancelled, pc, output>>

\* Lines 68-76: HTTP.get raises a transport error or raise_for_status raises
\* on a non-success status.  The exception leaves the task and the task
\* group cancels its scope.
RespondError(i) ==
    /\ pc = "group" /\ ~cancelled
    /\ tasks[i].st = "fetching"
    /\ tasks' = [tasks EXCEPT ![i] = [@ EXCEPT !.st = "failed"]]
    /\ cancelled' = TRUE
    /\ UNCHANGED <<country, notes, tagorder, features, pc, output>>

\* Line 61: the cancelled scope delivers the cancellation: every task that
\* has not run yet, or is suspended in await HTTP.get, ends with it.
Cancel ==
    /\ pc = "group" /\ cancelled
    /\ \E i \in DOMAIN tasks : ~Finished(tasks[i])
    /\ tasks' = [i \in DOMAIN tasks |->
                    IF Finished(tasks[i]) THEN tasks[i]
                    ELSE [tasks[i] EXCEPT !.st = "cancelled"]]
    /\ UNCHANGED <<country, notes, tagorder, features, cancelled, pc, output>>

\* ------------------------------------------------------------- main
\* A wait for the tasks of the bootstrap grid only.
Drained_bootstrap == \A i \in DOMAIN tasks : tasks[i].parent = 0 => Finished(tasks[i])

\* Line 61: the exit of `async with` waits for every task of the group,
\* those started by other tasks included.
Drained == \A i \in DOMAIN tasks : Finished(tasks[i])

\* A save that follows the group whether or not a task raised.
Save_always ==
    /\ pc = "group" /\ Drained
    /\ output' = sorted(features)
    /\ pc' = "saved"
    /\ UNCHANGED <<country, notes, tagorder, tasks, features, cancelled>>

\* Line 106: the group ended without an exception; _save_result sorts by id.
Save ==
    /\ pc = "group" /\ Drained /\ ~cancelled
    /\ output' = sorted(features)
    /\ pc' = "saved"
    /\ UNCHANGED <<country, notes, tagorder, tasks, features, cancelled>>

\* Line 61: the group re-raises the exception of the failed task; line 106
\* is not reached.
Raise ==
    /\ pc = "group" /\ Drained /\ cancelled
    /\ pc' = "raised"
    /\ UNCHANGED <<country, notes, tagorder, tasks, features, cancelled, output>>

Next ==
    \/ Start
    \/ \E i \in DOMAIN tasks : Respond(i)
    \/ \E i \in DOMAIN tasks : RespondError(i)
    \/ Cancel
    \/ Save
    \/ Raise

Spec == Init /\ [][Next]_vars

\* The event loop runs every task that is ready: a task of a cancelled scope
\* gets to end, and main is resumed once the group has drained.  Nothing is
\* assumed about the remote API answering.
FairSpec ==
    Spec /\ WF_vars(Cancel) /\ WF_vars(Raise)

\* The event loop runs every ready task, the remote API answers every
\* request that does not fail, and main is resumed once the group has
\* drained.  A request may still fail at any time.
LiveSpec ==
    /\ Spec
    /\ WF_vars(Start)
    /\ WF_vars(\E i \in DOMAIN tasks : Respond(i))
    /\ WF_vars(Cancel)
    /\ WF_vars(Save)
    /\ WF_vars(Raise)

\* =========================================================== claims
Ids(recs) == {recs[k].id : k \in DOMAIN recs}

AnyFailed == \E i \in DOMAIN tasks : tasks[i].st = "failed"

Kids(i) == {j \in DOMAIN tasks : tasks[j].parent = i}

\* The notes of the dataset in the closed rectangle of task t's cell.
NotesIn(t) == {f \in notes : InBBox(f.pos, t.lon, t.lat, t.size)}

\* C1: when the run completes without error, every note of the dataset with
\* at least one comment whose point the country contains is in the output.
C1_NoOmissions ==
    pc = "saved" =>
        \A f \in notes :
            (f.comments # << >> /\ contains(country, f.pos)) => f.id \in Ids(output)

\* A completed run in which a cell was subdivided and a quadrant, as a leaf,
\* holds a commented note inside the country.
C1_Witness ==
    /\ pc = "saved"
    /\ \E i \in DOMAIN tasks :
        /\ tasks[i].st = "leaf" /\ tasks[i].depth >= 1
        /\ \E f \in NotesIn(tasks[i]) :
            f.comments # << >> /\ contains(country, f.pos) /\ f.id \in Ids(output)

\* C2: after a completed run no identifier occurs twice in the output.
C2_NoDuplicates ==
    pc = "saved" =>
        \A j, k \in DOMAIN output : output[j].id = output[k].id => j = k

\* C3: in every state every record of the result store, and of the output,
\* has a point the country contains.
C3_Containment ==
    /\ \A k \in DOMAIN features : contains(country, features[k].pos)
    /\ \A k \in DOMAIN output : contains(country, output[k].pos)

\* A leaf cell returned a commented note outside the country and a note it
\* kept: the store holds the one and not the other.
C3_Witness ==
    \E i \in DOMAIN tasks :
        /\ tasks[i].st = "leaf" /\ tasks[i].kept >= 1
        /\ \E f \in NotesIn(tasks[i]) :
            f.comments # << >> /\ ~contains(country, f.pos) /\ f.id \notin Ids(features)

\* C4: the save happens only when every task ever started in the group has
\* finished, the tasks started by overflowing parents included.
C4_DrainBeforeSave ==
    pc = "saved" => \A i \in DOMAIN tasks : Finished(tasks[i])

\* The output was saved after a parent overflowed and its four quadrants,
\* started by it, were processed.
C4_Witness ==
    /\ pc = "saved"
    /\ \E i \in DOMAIN tasks : tasks[i].st = "split" /\ Cardinality(Kids(i)) = 4

\* C5: once a task has failed the output is never written, whatever the
\* store holds; the output is written only after a drain without failure,
\* and after such a drain the save is what main does next.
C5_AllOrNothing ==
    /\ AnyFailed => (pc # "saved" /\ output = << >>)
    /\ pc = "saved" => (\A i \in DOMAIN tasks : tasks[i].st \in {"pruned", "split", "leaf"})
    /\ pc = "raised" => AnyFailed
    /\ (pc = "group" /\ \A i \in DOMAIN tasks : tasks[i].st \in {"pruned", "split", "leaf"})
          => ENABLED Save

\* The run ended with the error of a failed task while the store held
\* records of other cells; nothing was written.
C5_Witness ==
    pc = "raised" /\ AnyFailed /\ features # << >> /\ output = << >>

\* The squares of side q, on the grid of step q through the cell's origin,
\* that lie inside the cell.
Squares(lon, lat, size, q) ==
    {<<lon + a * q, lat + b * q>> : a \in 0..((size \div q) - 1), b \in 0..((size \div q) - 1)}

\* C6: a capped cell has exactly four children of half its side, at the
\* origins (lon, lat), (lon + h, lat), (lon, lat + h), (lon + h, lat + h);
\* they cover the parent's rectangle and no two of them overlap.  Cover and
\* overlap are counted in squares of a quarter of the parent's side.
C6_Subdivision ==
    \A i \in DOMAIN tasks :
        tasks[i].st = "split" =>
            \A kids \in {Kids(i)} :
            LET t == tasks[i]
                h == t.size \div 2
                q == t.size \div 4
                Sq(j) == Squares(tasks[j].lon, tasks[j].lat, tasks[j].size, q)
            IN  /\ 2 * h = t.size /\ 4 * q = t.size
                /\ Cardinality(kids) = 4
                /\ \A j \in kids : tasks[j].size = h
                /\ {<<tasks[j].lon, tasks[j].lat>> : j \in kids} =
                      {<<t.lon, t.lat>>, <<t.lon + h, t.lat>>,
                       <<t.lon, t.lat + h>>, <<t.lon + h, t.lat + h>>}
                /\ UNION {Sq(j) : j \in kids} = Squares(t.lon, t.lat, t.size, q)
                /\ \A j, k \in kids : j < k => Sq(j) \cap Sq(k) = {}

\* A cell of the bootstrap grid was capped and has its children.
C6_Witness ==
    \E i \in DOMAIN tasks :
        tasks[i].st = "split" /\ tasks[i].got = API_LIMIT /\ Kids(i) # {}

\* C7: a cell whose fetch returned exactly API_LIMIT items has its four
\* children and appended nothing; a cell whose fetch returned fewer has no
\* children; every record of the store was appended by an uncapped cell.
RECURSIVE KeptUpTo(_)
KeptUpTo(n) ==
    IF n = 0 THEN 0
    ELSE KeptUpTo(n - 1) + (IF tasks[n].st = "leaf" THEN tasks[n].kept ELSE 0)

C7_ExactCap ==
    /\ \A i \in DOMAIN tasks :
        /\ tasks[i].got = API_LIMIT =>
              (tasks[i].st = "split" /\ tasks[i].kept = 0 /\ Cardinality(Kids(i)) = 4)
        /\ (tasks[i].got >= 0 /\ tasks[i].got < API_LIMIT) =>
              (tasks[i].st \in {"leaf", "failed"} /\ Kids(i) = {})
        /\ tasks[i].kept > 0 => (tasks[i].st = "leaf" /\ tasks[i].got < API_LIMIT)
    /\ Len(features) = KeptUpTo(Len(tasks))

\* A cell holding exactly API_LIMIT notes was split, and a cell that
\* returned fewer appended a record.
C7_Witness ==
    /\ \E i \in DOMAIN tasks :
        tasks[i].st = "split" /\ Cardinality(NotesIn(tasks[i])) = API_LIMIT
    /\ \E i \in DOMAIN tasks :
        tasks[i].st = "leaf" /\ tasks[i].kept = 1 /\ tasks[i].got = 1

\* Task t's closed cell and a closed tile of the country share a point.  Two
\* closed rectangles with sides along the axes share a point when their
\* spans share a coordinate along each axis, and two closed spans that share
\* a coordinate share one that is an end of one of them.
SpansMeet(a, b, c, d) == \E x \in {a, b, c, d} : a <= x /\ x <= b /\ c <= x /\ x <= d

MeetsCountry(t) ==
    \E c \in country :
        /\ SpansMeet(t.lon, t.lon + t.size, c[1], c[1] + Scale)
        /\ SpansMeet(t.lat, t.lat + t.size, c[2], c[2] + Scale)

\* A task that issued no request, has no children and appended nothing.
Untouched(i) ==
    /\ tasks[i].reqs = 0
    /\ tasks[i].st \in {"pending", "pruned", "cancelled"}
    /\ Kids(i) = {}
    /\ tasks[i].kept = 0

\* C9: a cell that does not meet the country is never fetched, has no
\* children and appends nothing; every request is for a cell that meets it.
C9_Prune ==
    \A i \in DOMAIN tasks : Untouched(i) \/ MeetsCountry(tasks[i])

\* In a completed run a quadrant of a capped cell was pruned while another
\* quadrant of the same cell was fetched.
C9_Witness ==
    /\ pc = "saved"
    /\ \E i, j \in DOMAIN tasks :
        /\ tasks[i].st = "pruned" /\ tasks[i].depth >= 1 /\ tasks[i].reqs = 0
        /\ tasks[j].parent = tasks[i].parent /\ tasks[j].reqs = 1

\* The harvest of one cell and of the cells below it, taken depth first in
\* the order of lines 83-86, for a given set iteration order.
RECURSIVE RefCell(_, _, _, _, _)
RefCell(lon, lat, size, depth, order) ==
    IF ~intersects(country, lon, lat, size) THEN << >>
    ELSE LET cell_result == Fetch(notes, lon, lat, size)
             h == size \div 2
         IN  IF ~capped(cell_result) THEN cell_batch(cell_result, order)
             ELSE IF depth >= MaxDepth THEN << >>
             ELSE RefCell(lon, lat, h, depth + 1, order)
                  \o RefCell(lon + h, lat, h, depth + 1, order)
                  \o RefCell(lon, lat + h, h, depth + 1, order)
                  \o RefCell(lon + h, lat + h, h, depth + 1, order)

\* The harvest of the first n bootstrap cells, one after the other.
RECURSIVE RefGrid(_, _)
RefGrid(n, order) ==
    IF n = 0 THEN << >>
    ELSE LET b == Bootstrap(country)[n]
         IN  RefGrid(n - 1, order) \o RefCell(b.lon, b.lat, b.size, 0, order)

\* What the run that takes the cells one after the other, in a process whose
\* sets iterate in the given order, hands to the writer.
Reference(order) == sorted(RefGrid(Len(Bootstrap(country)), order))

\* C8: for a fixed dataset and country every two completed runs hand the
\* writer the same sequence of records.  All runs agree with each other iff
\* all agree with one of them: the sequential run of a process whose sets
\* iterate "#a" before "#b".
C8_Deterministic ==
    pc = "saved" => output = Reference(<<"#a", "#b">>)

\* What does hold: the output does not depend on the order in which the
\* tasks complete, only on the dataset, the country and the iteration order
\* of this process's sets.
ScheduleIndependent ==
    pc = "saved" => output = Reference(tagorder)

\* C10: once a task has failed no record is appended, no task is started
\* and no request is issued any more; every outstanding task ends and main
\* ends by raising the error.
C10_CancelTree ==
    /\ [][AnyFailed => /\ features' = features
                       /\ Len(tasks') = Len(tasks)
                       /\ \A i \in DOMAIN tasks : tasks'[i].reqs = tasks[i].reqs]_vars
    /\ AnyFailed ~> (pc = "raised" /\ \A i \in DOMAIN tasks : Finished(tasks[i]))

\* The run raised after a task failed; a task suspended in its request and
\* a task that had not run yet were cancelled.
C10_Witness ==
    /\ pc = "raised"
    /\ \E i \in DOMAIN tasks : tasks[i].st = "cancelled" /\ tasks[i].reqs = 1
    /\ \E i \in DOMAIN tasks : tasks[i].st = "cancelled" /\ tasks[i].reqs = 0

\* The first comment's date does not begin with a year.
BadDate(f) == f.comments # << >> /\ ~IsInt(Prefix(f.comments[1].date, 4))

\* The notes of task t's cell that the filter of line 92 lets through.
Passing(t) == {f \in NotesIn(t) : f.comments # << >> /\ contains(country, f.pos)}

\* C11: no record of the store comes from a note without comments; a task
\* that failed after its response holds a note with a malformed date, so a
\* note without comments alone never makes it fail; a leaf cell appended
\* every other note of its cell that is commented and inside the country.
C11_SilentSkip ==
    /\ \A k \in DOMAIN features :
          \A f \in notes : f.id = features[k].id => f.comments # << >>
    /\ \A i \in DOMAIN tasks :
        /\ (tasks[i].st = "failed" /\ tasks[i].got >= 0) =>
              \E f \in Passing(tasks[i]) : BadDate(f)
        /\ tasks[i].st = "leaf" =>
              /\ tasks[i].kept = Cardinality(Passing(tasks[i]))
              /\ \A f \in Passing(tasks[i]) : f.id \in Ids(features)

\* A leaf cell returned a note without comments that lies inside the country
\* together with a note it kept; the store holds the second and not the first.
C11_Witness ==
    \E i \in DOMAIN tasks :
        /\ tasks[i].st = "leaf" /\ tasks[i].got >= 2 /\ tasks[i].kept >= 1
        /\ \E f \in NotesIn(tasks[i]) :
            f.comments = << >> /\ contains(country, f.pos) /\ f.id \notin Ids(features)
        /\ \E f \in Passing(tasks[i]) : f.id \in Ids(features)

\* The tasks main started for the bootstrap grid.
Boot == {i \in DOMAIN tasks : tasks[i].parent = 0}

\* The least n with n * s >= w, for w >= 0 and s > 0.
Steps(w, s) == CHOOSE n \in 0..w : n * s >= w /\ (n = 0 \/ (n - 1) * s < w)

\* C12: in every state the bootstrap tasks are ceil(w/S) * ceil(h/S) many,
\* one for every origin (minLon + i*S, minLat + j*S), each of size S, and
\* every square degree of the bounding box lies in one of their cells; for
\* the box (0,0)-(8,8) the cells are (0,0,4), (4,0,4), (0,4,4), (4,4,4).
C12_BootstrapGrid ==
    \A minLon \in {SetMin({c[1] : c \in country})}, minLat \in {SetMin({c[2] : c \in country})} :
    \A w \in {SetMax({c[1] : c \in country}) + Scale - minLon},
       h \in {SetMax({c[2] : c \in country}) + Scale - minLat} :
    \A nx \in {Steps(w, InitSize)}, ny \in {Steps(h, InitSize)} :
    \A boot \in {Boot} :
    \A cells \in {{<<tasks[i].lon, tasks[i].lat, tasks[i].size>> : i \in boot}} :
        /\ Cardinality(boot) = nx * ny
        /\ cells = {<<minLon + i * InitSize, minLat + j * InitSize, InitSize>> :
                        i \in 0..(nx - 1), j \in 0..(ny - 1)}
        /\ Cardinality(cells) = nx * ny
        /\ \A i \in boot : tasks[i].depth = 0
        /\ \A dx \in 0..((w \div Scale) - 1), dy \in 0..((h \div Scale) - 1) :
              \E c \in cells :
                  /\ c[1] <= minLon + dx * Scale
                  /\ minLon + (dx + 1) * Scale <= c[1] + c[3]
                  /\ c[2] <= minLat + dy * Scale
                  /\ minLat + (dy + 1) * Scale <= c[2] + c[3]
        /\ (minLon = 0 /\ minLat = 0 /\ w = 8 * Scale /\ h = 8 * Scale) =>
              cells = { <<0, 0, 4 * Scale>>, <<4 * Scale, 0, 4 * Scale>>,
                        <<0, 4 * Scale, 4 * Scale>>, <<4 * Scale, 4 * Scale, 4 * Scale>> }

\* The bounding box is 5 x 3 degrees, no multiple of the cell size on either
\* axis, and both tasks of the grid have run their first step.
C12_Witness ==
    /\ country = CountryA
    /\ Cardinality(Boot) = 2
    /\ \A i \in Boot : tasks[i].st # "pending"

\* C13: process_feature applied to an item it has already been applied to
\* succeeds and gives the same record.  process_feature changes its argument
\* in place and returns it, so the records of the store are the items after
\* the first application; the second application is on them.
C13_Idempotent ==
    \A k \in DOMAIN features :
        /\ ~process_feature_raises(features[k])
        /\ process_feature(features[k], tagorder) = features[k]

\* C14: the tasks started by one parent, and those of the bootstrap grid,
\* are for different cells; a task has issued one request exactly when it
\* got past the test of line 65, and none otherwise; a task never issues a
\* second request and a finished task, a failed one included, never acts
\* again.
C14_OneFetch ==
    /\ [](\A i \in DOMAIN tasks :
            /\ tasks[i].reqs \in {0, 1}
            /\ tasks[i].st \in {"fetching", "split", "leaf", "failed"} => tasks[i].reqs = 1
            /\ tasks[i].st \in {"pending", "pruned"} => tasks[i].reqs = 0
            /\ \A j \in DOMAIN tasks :
                  (j # i /\ tasks[j].parent = tasks[i].parent) =>
                      <<tasks[j].lon, tasks[j].lat>> # <<tasks[i].lon, tasks[i].lat>>)
    /\ [][\A i \in DOMAIN tasks :
            /\ tasks[i].reqs = 1 => tasks'[i].reqs = 1
            /\ Finished(tasks[i]) => tasks'[i] = tasks[i]]_vars

\* The run ended with the error of a task whose one request failed.
C14_Witness ==
    /\ pc = "raised"
    /\ \E i \in DOMAIN tasks :
        tasks[i].st = "failed" /\ tasks[i].got = -1 /\ tasks[i].reqs = 1

\* C15: a task whose uncapped response holds a note, commented and inside
\* the country, with a malformed date has failed and appended nothing, and
\* the output is not written; the step in which a task fails leaves the
\* store as it is.
C15_MalformedDate ==
    /\ [](\A i \in DOMAIN tasks :
            (/\ tasks[i].got >= 0 /\ tasks[i].got < API_LIMIT
             /\ \E f \in Passing(tasks[i]) : BadDate(f)) =>
                /\ tasks[i].st = "failed"
                /\ tasks[i].kept = 0
                /\ pc # "saved" /\ output = << >>)
    /\ [](Len(features) = KeptUpTo(Len(tasks)))
    /\ [][\A i \in DOMAIN tasks :
            (tasks[i].st # "failed" /\ tasks'[i].st = "failed") => features' = features]_vars

\* The run raised after a cell returned, in this order, a note it would have
\* kept and a kept note with a malformed date; the store does not hold the
\* first.
C15_Witness ==
    /\ pc = "raised"
    /\ \E i \in DOMAIN tasks :
        /\ tasks[i].st = "failed" /\ tasks[i].got >= 2
        /\ \E f, g \in Passing(tasks[i]) :
            ~BadDate(f) /\ BadDate(g) /\ f.id < g.id /\ f.id \notin Ids(features)

\* The cells of the quadtree at depth d below the bootstrap grid, as
\* <<lon, lat, size>>.
CellsAt(d) ==
    LET s == InitSize \div Pow2(d)
    IN  { <<tasks[i].lon + a * s, tasks[i].lat + b * s, s>> :
            i \in Boot, a \in 0..(Pow2(d) - 1), b \in 0..(Pow2(d) - 1) }

\* Every cell at depth d holds fewer notes than the page cap, and so does
\* every smaller cell.
SparseAt(d) ==
    \A c \in CellsAt(d) :
        Cardinality({f \in notes : InBBox(f.pos, c[1], c[2], c[3])}) < API_LIMIT

\* A request failed: a transport error or a non-success status.
FetchFailed == \E i \in DOMAIN tasks : tasks[i].st = "failed" /\ tasks[i].got = -1

\* C16 as stated: when the cells at some depth are sparse and no fetch
\* fails, the output is eventually saved.
C16_Original ==
    SparseAt(MaxDepth) => <>(FetchFailed \/ pc = "saved")

\* C16 as amended: when the cells at the smallest size are sparse and no
\* task fails, neither by its fetch nor by a malformed date, the group
\* drains and the output is eventually saved; and a task deeper than d
\* exists only when the cells at depth d are not sparse.
C16_Termination ==
    /\ SparseAt(MaxDepth) => <>(AnyFailed \/ (pc = "saved" /\ Drained))
    /\ [](\A d \in 0..MaxDepth :
            (\E i \in DOMAIN tasks : tasks[i].depth > d) => ~SparseAt(d))

\* The output was saved after a capped cell was split into sparse
\* quadrants, which were fetched as leaves.
C16_Witness ==
    /\ pc = "saved" /\ SparseAt(MaxDepth) /\ ~SparseAt(0)
    /\ \E i \in DOMAIN tasks : tasks[i].depth = MaxDepth /\ tasks[i].st = "leaf"

\* API_LIMIT or more notes of the dataset lie at the point p, which the
\* country contains.
Cluster(p) ==
    /\ contains(country, p)
    /\ Cardinality({f \in notes : f.pos = p}) >= API_LIMIT

\* C17: with such a cluster every task whose cell holds the point and whose
\* response was handled found it capped and started a child whose cell
\* holds the point again; as long as nothing has failed a task on the point
\* is outstanding, so the group has not drained; the output is never saved.
C17_DenseCluster ==
    \A p \in Range(Points) :
        Cluster(p) =>
            /\ pc # "saved" /\ output = << >>
            /\ \A i \in DOMAIN tasks :
                  (InBBox(p, tasks[i].lon, tasks[i].lat, tasks[i].size) /\ tasks[i].got >= 0) =>
                      /\ tasks[i].st = "split" /\ tasks[i].got = API_LIMIT
                      /\ \E j \in Kids(i) :
                            /\ InBBox(p, tasks[j].lon, tasks[j].lat, tasks[j].size)
                            /\ tasks[j].depth = tasks[i].depth + 1
            /\ ~cancelled =>
                  \E i \in DOMAIN tasks :
                      /\ ~Finished(tasks[i])
                      /\ InBBox(p, tasks[i].lon, tasks[i].lat, tasks[i].size)

\* Every other task has finished; the cell on the cluster was split at every
\* depth followed and the task of its deepest quadrant on the cluster has
\* issued its request.
C17_Witness ==
    \E p \in Range(Points) :
        /\ Cluster(p) /\ ~cancelled
        /\ \E i \in DOMAIN tasks :
            /\ tasks[i].depth = MaxDepth /\ tasks[i].st = "fetching"
            /\ InBBox(p, tasks[i].lon, tasks[i].lat, tasks[i].size)
            /\ tasks[tasks[i].parent].st = "split"
        /\ \A i \in DOMAIN tasks :
            InBBox(p, tasks[i].lon, tasks[i].lat, tasks[i].size) \/ Finished(tasks[i])

\* How often the store holds a record of note f, and how many leaf cells
\* kept that note.
Stored(f) == Cardinality({k \in DOMAIN features : features[k].id = f.id})
KeptBy(f) == {i \in DOMAIN tasks : tasks[i].st = "leaf" /\ f \in Passing(tasks[i])}

\* C18: in every state, and so at the drain, the store holds every note as
\* often as leaf cells kept it, as its normalized record, and nothing else;
\* a step keeps the store as a prefix of the new store; the step in which a
\* task ends as a leaf appends exactly the kept notes of its cell, as one
\* block at the end of the store.
C18_AppendLosesNothing ==
    /\ [](/\ \A f \in notes : Stored(f) = Cardinality(KeptBy(f))
          /\ \A k \in DOMAIN features :
                \E f \in notes : f.id = features[k].id
                                 /\ features[k] = process_feature(f, tagorder))
    /\ [][/\ Len(features') >= Len(features)
          /\ SubSeq(features', 1, Len(features)) = features
          /\ \A i \in DOMAIN tasks :
                (tasks[i].st = "fetching" /\ tasks'[i].st = "leaf") =>
                    /\ Len(features') = Len(features) + Cardinality(Passing(tasks[i]))
                    /\ {features'[k].id : k \in (Len(features) + 1)..Len(features')}
                          = {f.id : f \in Passing(tasks[i])}]_vars

\* The group has drained without failure; a leaf cell appended two records
\* in one step, after a leaf cell that was started later had appended its own.
C18_Witness ==
    /\ pc = "group" /\ Drained /\ ~cancelled
    /\ \E i, j \in DOMAIN tasks :
        /\ i < j /\ tasks[i].st = "leaf" /\ tasks[j].st = "leaf"
        /\ tasks[i].kept >= 2 /\ tasks[j].kept >= 1
        /\ \E a, b \in DOMAIN features :
            /\ a < b
            /\ features[a].id \in {f.id : f \in Passing(tasks[j]) \ Passing(tasks[i])}
            /\ features[b].id \in {f.id : f \in Passing(tasks[i]) \ Passing(tasks[j])}

\* Side of the smallest cell the model follows, and the squares of that side
\* in the cell of task i.
Finest == InitSize \div Pow2(MaxDepth)
FineSquares(i) == Squares(tasks[i].lon, tasks[i].lat, tasks[i].size, Finest)

\* The interiors of the cells of tasks i and j share a point: their open
\* spans overlap along both axes.
Overlap(i, j) ==
    /\ tasks[i].lon < tasks[j].lon + tasks[j].size
    /\ tasks[j].lon < tasks[i].lon + tasks[i].size
    /\ tasks[i].lat < tasks[j].lat + tasks[j].size
    /\ tasks[j].lat < tasks[i].lat + tasks[i].size

\* The cells of the tasks in F have disjoint interiors and cover the
\* bootstrap grid, counted in squares of the finest side.
Partition(F) ==
    /\ \A i, j \in F : i < j => ~Overlap(i, j)
    /\ UNION {FineSquares(i) : i \in F} = UNION {FineSquares(i) : i \in Boot}

\* Every cell at depth d has side INIT_CELL_SIZE / 2^d and no two tasks are
\* for the same cell.
Sized ==
    /\ \A i \in DOMAIN tasks :
          tasks[i].size * Pow2(tasks[i].depth) = InitSize /\ tasks[i].size % Finest = 0
    /\ \A i, j \in DOMAIN tasks :
          i < j => (tasks[i].lon # tasks[j].lon \/ tasks[i].lat # tasks[j].lat
                        \/ tasks[i].size # tasks[j].size)

\* C19 as stated: in every state the cells of the pending, in-flight, pruned
\* and leaf tasks have disjoint interiors and cover the bootstrap grid;
\* every cell at depth d has side INIT_CELL_SIZE / 2^d and no cell is
\* created twice.
C19_Original ==
    /\ Partition({i \in DOMAIN tasks : tasks[i].st \in {"pending", "fetching", "pruned", "leaf"}})
    /\ Sized

\* C19 as amended: the same, for the cells of all tasks that did not split
\* their cell, those that failed or were cancelled included.
C19_Partition ==
    /\ Partition({i \in DOMAIN tasks : tasks[i].st # "split"})
    /\ Sized

\* A bootstrap cell is a leaf, another was split, and of its quadrants one
\* was pruned, one is a leaf and one is in flight.
C19_Witness ==
    /\ ~cancelled
    /\ \E i, j \in DOMAIN tasks :
        /\ tasks[i].depth = 0 /\ tasks[i].st = "leaf"
        /\ tasks[j].depth = 0 /\ tasks[j].st = "split"
        /\ \E a, b, c \in Kids(j) :
            tasks[a].st = "pruned" /\ tasks[b].st = "leaf" /\ tasks[c].st = "fetching"

====
